---------------------------- MODULE Spec2Model ----------------------------
(***************************************************************************)
(* Model of the enhanced Raspberry Pi video streamer                       *)
(* (src/pi_server_enhanced.py): the shared StreamState record, the         *)
(* streaming pipeline (stream_video, run by the main thread), the UDP      *)
(* command listener (listen_for_commands) and the TCP status accept loop   *)
(* (status_server).                                                        *)
(*                                                                         *)
(* Conventions.                                                            *)
(*  - A block "with self.lock:" is one atomic step.  Reads of state.*      *)
(*    made by the pipeline outside the lock are steps of their own.        *)
(*  - Python's unbounded ints that reach the wire (seq, frames_sent,       *)
(*    time_ns) are big-endian sequences of base-256 digits without leading *)
(*    zeros; <<>> is 0.  struct's "!I" and "!Q" fields are 4 and 8 bytes.  *)
(*  - None is 0 for recording_file and recording_start_time (real values   *)
(*    are >= 1), "None" for pc_ip, and present = FALSE for video_writer.   *)
(*  - Wall-clock time is counted in ticks, TicksPerSecond ticks a second.  *)
(***************************************************************************)
EXTENDS Integers, Sequences, FiniteSets, TLC

\* ------------------------------------------------------------- bounds
\* video datagrams the transport accepts in a run; later sendto calls fail
MaxSent == 2
\* last tick of the wall clock
MaxClock == 2
\* bytes one written frame adds to the recording file
FrameBytes == 300000000
\* resolution of the wall clock: ticks in a second
TicksPerSecond == 1
\* the timed view of the loop: its last tick, and the most ticks one
\* statement takes
MaxNow == 8
MaxStep == 3

\* --------------------------------------------------- program constants
MAX_RECORDING_SIZE_MB == 500
BytesPerMB == 1048576
SeqBytes == 4
TsBytes == 8
ByteBase == 256
NsPerSecond == 1000000000
\* 1.0 / state.fps with fps = 15, and time.sleep(0.1), in ticks of 1/30 s
TicksPerFrame == 2
IdleSleepTicks == 3

Addrs == {"pcA", "pcB"}
Frames == {1, 2}

VARIABLES
  \* StreamState
  streaming, recording, pc_ip, frames_sent, frames_recorded,
  recording_file, recording_start_time, video_writer,
  \* running_flag[0]
  running,
  \* stream_video (main thread): position, pending exception, locals (frame
  \* and filepath are 0 while the code holds no value it will still read)
  pipe_pc, pipe_exc, seq, frame, filepath, camera,
  \* environment: wall clock, recordings directory
  clock, disk,
  \* what the step just taken handed to the network: the video datagram
  \* given to sock.sendto by stream_video (NoPacket: none) and the response
  \* given to sock.sendto by listen_for_commands (NoReply: none)
  packet, reply,
  \* whether the step just taken printed "Recording size limit reached"
  warned,
  \* the status connection the step just taken served (NoConn: none): the
  \* request received, what was sent back, whether the connection was closed
  conn,
  \* video datagrams handed over since the initial state
  nsent,
  \* history: the last of START and STOP the listener processed ("none": the
  \* process has seen neither), and the frames written to the current
  \* recording when its file was already above the size cap
  lastStream, overWrites,
  \* listen_for_commands: position
  cmd_pc,
  \* status_server: position
  status_pc,
  \* stream_video with time (in ticks): time.time(), the loop_start and the
  \* elapsed of the iteration in progress, and history: the times at which
  \* packets were handed to sendto and the loop_start of their iterations
  now, loop_start, elapsed, sendTimes, startTimes,
  \* web_bridge.py, BridgeHandler.download_recording: position, the reply the
  \* Pi makes to this request, the bytes of it not yet received and whether
  \* more will come ("open"), none will and the Pi has closed ("closed"), or
  \* none will though the Pi has not closed ("stalled"); the locals size_line,
  \* file_size and bytes_received; the HTTP status sent (0: none yet)
  br_pc, pi_reply, br_sock, br_peer, size_line, file_size, bytes_received,
  br_http,
  \* main_lightweight.py: running[0]; the positions of stream_video and
  \* listen_for_commands; the camera; the video socket; seq; what the step just taken handed
  \* to the command socket and whether it handed a video packet to sendto
  lw_running, lw_pc, lw_cmd_pc, lw_camera, lw_sock, lw_seq, lw_reply,
  lw_packet

stateVars == <<streaming, recording, pc_ip, frames_sent, frames_recorded,
               recording_file, recording_start_time, video_writer>>
pipeVars == <<pipe_pc, pipe_exc, seq, frame, filepath, camera>>
envVars == <<clock, disk>>
cmdVars == <<cmd_pc>>
statusVars == <<status_pc>>
outVars == <<packet, reply, warned, conn>>
histVars == <<lastStream, overWrites>>
timeVars == <<now, loop_start, elapsed, sendTimes, startTimes>>
\* the variables of the views of the program that the untimed model of
\* pi_server_enhanced.py leaves alone
bridgeVars == <<br_pc, pi_reply, br_sock, br_peer, size_line, file_size,
                bytes_received, br_http>>
lwVars == <<lw_running, lw_pc, lw_cmd_pc, lw_camera, lw_sock, lw_seq,
            lw_reply, lw_packet>>
sideVars == <<timeVars, bridgeVars, lwVars>>
vars == <<stateVars, running, pipeVars, envVars, outVars, nsent, histVars,
          cmdVars, statusVars, sideVars>>

\* ------------------------------------------------------ Python ints
\* n + 1 on a big-endian base-256 digit sequence
RECURSIVE IncDigits(_)
IncDigits(d) ==
  IF d = <<>> THEN <<1>>
  ELSE LET n == Len(d) IN
       IF d[n] < ByteBase - 1 THEN [d EXCEPT ![n] = d[n] + 1]
       ELSE Append(IncDigits(SubSeq(d, 1, n - 1)), 0)

\* an unsigned big-endian struct field of w bytes holding d (d fits in w bytes)
PackField(d, w) ==
  [i \in 1..w |-> IF i <= w - Len(d) THEN 0 ELSE d[i - (w - Len(d))]]

\* struct "!I": the value must be in 0 .. 2^32 - 1, else struct.error
FitsU32(d) == Len(d) <= SeqBytes

\* the header with its two fields in the other order (format "!Q I")
HeaderPack_tsFirst(s, t) == PackField(t, TsBytes) \o PackField(s, SeqBytes)

\* header_struct.pack(seq, timestamp_ns), header_struct = Struct("!I Q")
HeaderPack(s, t) == PackField(s, SeqBytes) \o PackField(t, TsBytes)

\* cv2.imencode(".jpg", frame, ...).tobytes(): SOI marker, content, EOI marker
JpegBytes(f) == <<255, 216, f, 255, 217>>

\* the digits of a natural number n
RECURSIVE ToDigits(_)
ToDigits(n) ==
  IF n = 0 THEN <<>> ELSE Append(ToDigits(n \div ByteBase), n % ByteBase)

\* d * m + c for a digit sequence d and small naturals m, c
RECURSIVE MulSmall(_, _, _)
MulSmall(d, m, c) ==
  IF d = <<>> THEN ToDigits(c)
  ELSE LET n == Len(d)
           v == d[n] * m + c
       IN Append(MulSmall(SubSeq(d, 1, n - 1), m, v \div ByteBase), v % ByteBase)

\* time.time_ns() at tick t
TimeNs(t) == MulSmall(ToDigits(NsPerSecond \div TicksPerSecond), t, 0)

\* seq after 2^32 - 2 packets have been sent
SeqNearWrap == <<255, 255, 255, 254>>

\* ------------------------------------------------------ recordings
NoWriter == [present |-> FALSE, opened |-> FALSE, file |-> 0, nframes |-> 0]

\* datetime.now().strftime("%Y%m%d_%H%M%S"): the time to the whole second
Timestamp(t) == t \div TicksPerSecond

FileNames == 1..Timestamp(MaxClock)

\* a file of this many bytes is larger than MAX_RECORDING_SIZE_MB megabytes
AboveCap(size) == size > MAX_RECORDING_SIZE_MB * BytesPerMB

\* the size test with the size taken in GB instead of MB
OverCap_wrongUnit(size) == size \div (BytesPerMB * 1024) > MAX_RECORDING_SIZE_MB

\* size_mb > MAX_RECORDING_SIZE_MB, size_mb = getsize / (1024 * 1024)
OverCap(size) == size > MAX_RECORDING_SIZE_MB * BytesPerMB

NoReply == [to |-> "None", text |-> "", file |-> 0, duration |-> 0, frames |-> 0]
Msg(text) == [text |-> text, file |-> 0, duration |-> 0, frames |-> 0]


\* ------------------------------------------------- StreamState methods
\* Each method is the record of the values its locked block leaves in the
\* fields it may assign, with its return value (success, msg).

\* start_recording without its isOpened() test: the fields are assigned
\* whether or not the writer opened
start_recording_noOpenCheck(openOk) ==
  LET filename == Timestamp(clock)
  IN IF recording
     THEN [recording |-> recording, recording_file |-> recording_file,
           recording_start_time |-> recording_start_time,
           frames_recorded |-> frames_recorded,
           video_writer |-> video_writer, disk |-> disk,
           success |-> FALSE, msg |-> Msg("Already recording")]
     ELSE [recording |-> TRUE,
           recording_file |-> filename,
           recording_start_time |-> clock,
           frames_recorded |-> 0,
           video_writer |->
             [present |-> TRUE, opened |-> openOk, file |-> filename, nframes |-> 0],
           disk |-> IF openOk THEN [disk EXCEPT ![filename] = 0] ELSE disk,
           success |-> TRUE,
           msg |-> [Msg("Recording started") EXCEPT !.file = filename]]

\* start_recording creating the writer before it tests self.recording
start_recording_writerFirst(openOk) ==
  LET filename == Timestamp(clock)
      writer == [present |-> TRUE, opened |-> openOk, file |-> filename,
                 nframes |-> 0]
      created == IF openOk THEN [disk EXCEPT ![filename] = 0] ELSE disk
      keep == [recording |-> recording, recording_file |-> recording_file,
               recording_start_time |-> recording_start_time,
               frames_recorded |-> frames_recorded,
               video_writer |-> writer, disk |-> created]
  IN IF recording
     THEN keep @@ [success |-> FALSE, msg |-> Msg("Already recording")]
     ELSE IF ~openOk
     THEN keep @@ [success |-> FALSE, msg |-> Msg("Failed to create video writer")]
     ELSE [recording |-> TRUE,
           recording_file |-> filename,
           recording_start_time |-> clock,
           frames_recorded |-> 0,
           video_writer |-> writer,
           disk |-> created,
           success |-> TRUE,
           msg |-> [Msg("Recording started") EXCEPT !.file = filename]]

\* start_recording without "self.frames_recorded = 0"
start_recording_noReset(openOk) ==
  LET filename == Timestamp(clock)
      keep == [recording |-> recording, recording_file |-> recording_file,
               recording_start_time |-> recording_start_time,
               frames_recorded |-> frames_recorded,
               video_writer |-> video_writer, disk |-> disk]
  IN IF recording
     THEN keep @@ [success |-> FALSE, msg |-> Msg("Already recording")]
     ELSE IF ~openOk
     THEN [keep EXCEPT !.video_writer =
             [present |-> TRUE, opened |-> FALSE, file |-> filename, nframes |-> 0]]
          @@ [success |-> FALSE, msg |-> Msg("Failed to create video writer")]
     ELSE [recording |-> TRUE,
           recording_file |-> filename,
           recording_start_time |-> clock,
           frames_recorded |-> frames_recorded,
           video_writer |->
             [present |-> TRUE, opened |-> TRUE, file |-> filename, nframes |-> 0],
           disk |-> [disk EXCEPT ![filename] = 0],
           success |-> TRUE,
           msg |-> [Msg("Recording started") EXCEPT !.file = filename]]

\* StreamState.start_recording(filename = None); openOk: VideoWriter.isOpened()
start_recording(openOk) ==
  LET filename == Timestamp(clock)
      keep == [recording |-> recording, recording_file |-> recording_file,
               recording_start_time |-> recording_start_time,
               frames_recorded |-> frames_recorded,
               video_writer |-> video_writer, disk |-> disk]
  IN IF recording
     THEN keep @@ [success |-> FALSE, msg |-> Msg("Already recording")]
     ELSE IF ~openOk
     THEN [keep EXCEPT !.video_writer =
             [present |-> TRUE, opened |-> FALSE, file |-> filename, nframes |-> 0]]
          @@ [success |-> FALSE, msg |-> Msg("Failed to create video writer")]
     ELSE [recording |-> TRUE,
           recording_file |-> filename,
           recording_start_time |-> clock,
           frames_recorded |-> 0,
           video_writer |->
             [present |-> TRUE, opened |-> TRUE, file |-> filename, nframes |-> 0],
           disk |-> [disk EXCEPT ![filename] = 0],
           success |-> TRUE,
           msg |-> [Msg("Recording started") EXCEPT !.file = filename]]

\* stop_recording without its test of self.recording
stop_recording_noGuard ==
  LET duration == IF recording_start_time # 0
                  THEN clock - recording_start_time ELSE 0
  IN [recording |-> FALSE,
      recording_file |-> 0,
      recording_start_time |-> 0,
      video_writer |-> IF video_writer.present THEN NoWriter ELSE video_writer,
      success |-> TRUE,
      msg |-> [text |-> "Recording stopped", file |-> recording_file,
               duration |-> duration \div TicksPerSecond,
               frames |-> frames_recorded]]

\* StreamState.stop_recording()
stop_recording ==
  IF ~recording
  THEN [recording |-> recording, recording_file |-> recording_file,
        recording_start_time |-> recording_start_time,
        video_writer |-> video_writer,
        success |-> FALSE, msg |-> Msg("Not recording")]
  ELSE LET duration == IF recording_start_time # 0
                       THEN clock - recording_start_time ELSE 0
       IN [recording |-> FALSE,
           recording_file |-> 0,
           recording_start_time |-> 0,
           video_writer |-> IF video_writer.present THEN NoWriter ELSE video_writer,
           success |-> TRUE,
           msg |-> [text |-> "Recording stopped", file |-> recording_file,
                    duration |-> duration \div TicksPerSecond,
                    frames |-> frames_recorded]]

\* write_frame testing only that a writer object is there, not that a
\* recording is in progress
write_frame_noRecordingTest ==
  IF video_writer.present
  THEN [video_writer |-> IF video_writer.opened
                         THEN [video_writer EXCEPT !.nframes = @ + 1]
                         ELSE video_writer,
        disk |-> IF video_writer.opened
                 THEN [disk EXCEPT ![video_writer.file] = @ + FrameBytes]
                 ELSE disk,
        frames_recorded |-> frames_recorded + 1,
        written |-> TRUE]
  ELSE [video_writer |-> video_writer, disk |-> disk,
        frames_recorded |-> frames_recorded, written |-> FALSE]

\* write_frame without "self.frames_recorded += 1"
write_frame_noCount ==
  IF recording /\ video_writer.present
  THEN [video_writer |-> IF video_writer.opened
                         THEN [video_writer EXCEPT !.nframes = @ + 1]
                         ELSE video_writer,
        disk |-> IF video_writer.opened
                 THEN [disk EXCEPT ![video_writer.file] = @ + FrameBytes]
                 ELSE disk,
        frames_recorded |-> frames_recorded,
        written |-> TRUE]
  ELSE [video_writer |-> video_writer, disk |-> disk,
        frames_recorded |-> frames_recorded, written |-> FALSE]

\* StreamState.write_frame(frame)
write_frame ==
  IF recording /\ video_writer.present
  THEN [video_writer |-> IF video_writer.opened
                         THEN [video_writer EXCEPT !.nframes = @ + 1]
                         ELSE video_writer,
        disk |-> IF video_writer.opened
                 THEN [disk EXCEPT ![video_writer.file] = @ + FrameBytes]
                 ELSE disk,
        frames_recorded |-> frames_recorded + 1,
        written |-> TRUE]
  ELSE [video_writer |-> video_writer, disk |-> disk,
        frames_recorded |-> frames_recorded, written |-> FALSE]

\* the assignments of a start_recording / stop_recording result r
ApplyRecordingFields(r) ==
  /\ recording' = r.recording
  /\ recording_file' = r.recording_file
  /\ recording_start_time' = r.recording_start_time
  /\ video_writer' = r.video_writer


\* --------------------------------------------------- command decoding
\* A datagram is a sequence of characters; "0xFF" stands for a byte that is
\* not valid UTF-8.
Whitespace == {" ", "\n", "\t", "\r"}

UpperChar(c) ==
  CASE c = "s" -> "S" [] c = "t" -> "T" [] c = "a" -> "A" [] c = "r" -> "R"
    [] c = "o" -> "O" [] c = "p" -> "P" [] c = "i" -> "I" [] c = "n" -> "N"
    [] c = "g" -> "G" [] OTHER -> c

\* str.strip()
RECURSIVE Strip(_)
Strip(t) ==
  IF t = <<>> THEN t
  ELSE IF Head(t) \in Whitespace THEN Strip(Tail(t))
  ELSE IF t[Len(t)] \in Whitespace THEN Strip(SubSeq(t, 1, Len(t) - 1))
  ELSE t

\* str.upper()
Upper(t) == [i \in 1..Len(t) |-> UpperChar(t[i])]

\* bytes.decode('utf-8') raises UnicodeDecodeError on an invalid byte
Decodable(data) == \A i \in 1..Len(data) : data[i] # "0xFF"

\* data.decode('utf-8').strip().upper()
Command(data) == Upper(Strip(data))

CMD_START == <<"S", "T", "A", "R", "T">>
CMD_STOP == <<"S", "T", "O", "P">>
CMD_RECORD_START == <<"R", "E", "C", "O", "R", "D", "_", "S", "T", "A", "R", "T">>
CMD_RECORD_STOP == <<"R", "E", "C", "O", "R", "D", "_", "S", "T", "O", "P">>
CMD_PING == <<"P", "I", "N", "G">>
CMD_SHUTDOWN == <<"S", "H", "U", "T", "D", "O", "W", "N">>

\* the datagrams the listener is sent
Datagrams ==
  { CMD_START, CMD_STOP, CMD_RECORD_START, CMD_RECORD_STOP, CMD_PING,
    CMD_SHUTDOWN,
    <<" ", "s", "t", "a", "r", "t", "\n">>,
    <<"H", "E", "L", "L", "O">>,
    <<" ">>,
    <<"S", "T", "O", "P", "0xFF">> }

\* data.decode('utf-8').strip().upper() of each of these datagrams, computed
\* once: ok is false where decode raises UnicodeDecodeError
Decoded ==
  [data \in Datagrams |->
     [ok |-> Decodable(data),
      command |-> IF Decodable(data) THEN Command(data) ELSE <<>>]]


\* ------------------------------------------------------------- Init
NoPacket == [dest |-> "None", bytes |-> <<>>, seq |-> <<>>, ts |-> <<>>, jpeg |-> <<>>]

NoConn == [request |-> <<>>, sent |-> <<>>, closed |-> FALSE, fault |-> "none"]

\* a video datagram: header + jpeg_bytes, sent to (pc_ip, VIDEO_PORT)
MakePacket(dest, s, t, jpeg) ==
  [dest |-> dest, bytes |-> HeaderPack(s, t) \o jpeg, seq |-> s, ts |-> t, jpeg |-> jpeg]

\* StreamState.__init__, running = [True], nothing started yet
InitFresh ==
  /\ streaming = FALSE /\ recording = FALSE /\ pc_ip = "None"
  /\ frames_sent = <<>> /\ frames_recorded = 0
  /\ recording_file = 0 /\ recording_start_time = 0 /\ video_writer = NoWriter
  /\ pipe_pc = "start" /\ seq = <<>> /\ camera = "unstarted"
  /\ cmd_pc = "bind" /\ status_pc = "bind"
  /\ clock = TicksPerSecond
  /\ lastStream = "none"

\* The same process after a START from pcA and 2^32 - 2 frames sent to it,
\* at the last tick: the pipeline is at the head of its loop, the listeners
\* are in theirs.
InitLongRun ==
  /\ streaming = TRUE /\ recording = FALSE /\ pc_ip = "pcA"
  /\ frames_sent = SeqNearWrap /\ frames_recorded = 0
  /\ recording_file = 0 /\ recording_start_time = 0 /\ video_writer = NoWriter
  /\ pipe_pc = "loop" /\ seq = SeqNearWrap /\ camera = "started"
  /\ cmd_pc = "loop" /\ status_pc = "accept"
  /\ clock = MaxClock
  /\ lastStream = "START"

\* what both initial states share
InitRest ==
  /\ running = TRUE
  /\ pipe_exc = "none" /\ frame = 0 /\ filepath = 0
  /\ disk = [f \in FileNames |-> -1]
  /\ packet = NoPacket /\ reply = NoReply /\ warned = FALSE /\ conn = NoConn
  /\ nsent = 0 /\ overWrites = 0

\* time is not followed
TimeIdle ==
  /\ now = 0 /\ loop_start = 0 /\ elapsed = 0
  /\ sendTimes = <<>> /\ startTimes = <<>>

\* no download has been asked of the web bridge
BridgeIdle ==
  /\ br_pc = "idle" /\ pi_reply = "none" /\ br_sock = <<>> /\ br_peer = "closed"
  /\ size_line = <<>> /\ file_size = 0 /\ bytes_received = 0 /\ br_http = 0

\* main_lightweight.py at its start: running = [True], nothing started
LwInit ==
  /\ lw_running = TRUE /\ lw_pc = "start" /\ lw_cmd_pc = "bind"
  /\ lw_camera = "unstarted" /\ lw_sock = "none" /\ lw_seq = 0
  /\ lw_reply = NoReply /\ lw_packet = FALSE

Init ==
  /\ InitFresh \/ InitLongRun
  /\ InitRest
  /\ TimeIdle /\ BridgeIdle /\ LwInit

\* ------------------------------------------------------ stream_video
\* the main thread is inside stream_video's try block
InTry == pipe_pc \in {"loop", "read", "write", "send", "cap_check", "cap_join",
                      "cap_size", "cap_stop"}
InFinally == pipe_pc \in {"finally", "finally_stop"}

\* stream_video has not returned to __main__, whose next statement ends the
\* process and with it the daemon threads ("returned": normally; "died": by
\* an exception __main__ does not catch)
ProcessAlive == pipe_pc \notin {"returned", "died"}

\* a step that hands nothing to the network
Quiet ==
  /\ packet' = NoPacket /\ reply' = NoReply /\ warned' = FALSE /\ conn' = NoConn
  /\ UNCHANGED sideVars

\* what a pipeline step that sends nothing and touches no shared field leaves
PipeLocalStep ==
  /\ Quiet
  /\ UNCHANGED <<stateVars, running, envVars, nsent, histVars, cmdVars,
                 statusVars>>

\* camera = SimpleCamera(); if not camera.start(): return
\* (camera.start() sleeps 0.5 s: the two daemon threads, started before it,
\* have reached their bind by the time it returns)
PipeStart ==
  /\ pipe_pc = "start"
  /\ cmd_pc # "bind" /\ status_pc # "bind"
  /\ \E ok \in BOOLEAN :
       IF ok THEN pipe_pc' = "loop" /\ camera' = "started"
       ELSE pipe_pc' = "returned" /\ camera' = camera
  /\ PipeLocalStep
  /\ UNCHANGED <<pipe_exc, seq, frame, filepath>>

\* the head of the loop without "if not state.streaming: ... continue"
PipeLoop_noStreamingTest ==
  /\ pipe_pc = "loop"
  /\ pipe_pc' = IF ~running THEN "finally" ELSE "read"
  /\ PipeLocalStep
  /\ UNCHANGED <<pipe_exc, seq, frame, filepath, camera>>

\* while running_flag[0]: if not state.streaming: sleep(0.1); continue
PipeLoop ==
  /\ pipe_pc = "loop"
  /\ pipe_pc' = IF ~running THEN "finally"
                ELSE IF ~streaming THEN "loop" ELSE "read"
  /\ PipeLocalStep
  /\ UNCHANGED <<pipe_exc, seq, frame, filepath, camera>>

\* frame = camera.read(); if frame is None: sleep(0.1); continue
PipeRead ==
  /\ pipe_pc = "read"
  /\ \/ pipe_pc' = "loop" /\ frame' = frame
     \/ \E f \in Frames : frame' = f /\ pipe_pc' = "write"
  /\ PipeLocalStep
  /\ UNCHANGED <<pipe_exc, seq, filepath, camera>>

\* state.write_frame(frame)
PipeWrite ==
  /\ pipe_pc = "write"
  /\ LET r == write_frame IN
       /\ video_writer' = r.video_writer
       /\ disk' = r.disk
       /\ frames_recorded' = r.frames_recorded
       /\ overWrites' = IF r.written /\ video_writer.opened
                            /\ AboveCap(disk[video_writer.file])
                         THEN overWrites + 1 ELSE overWrites
  /\ pipe_pc' = "send"
  /\ Quiet
  /\ UNCHANGED <<streaming, recording, pc_ip, frames_sent, recording_file,
                 recording_start_time, running, pipe_exc, seq, frame, filepath,
                 camera, clock, nsent, lastStream, cmdVars, statusVars>>

\* the send step with seq += 1 after the try/except, so that a failed send
\* uses up its number
PipeSend_countsFailed ==
  /\ pipe_pc = "send"
  /\ IF ~FitsU32(seq)
     THEN /\ pipe_exc' = "struct.error" /\ pipe_pc' = "finally"
          /\ packet' = NoPacket
          /\ UNCHANGED <<frames_sent, seq, nsent>>
     ELSE /\ pipe_exc' = pipe_exc /\ pipe_pc' = "cap_check"
          /\ IF pc_ip = "None"
             THEN packet' = NoPacket /\ UNCHANGED <<frames_sent, seq, nsent>>
             ELSE \E sent \in {FALSE, nsent < MaxSent} :
                    IF sent
                    THEN /\ packet' = MakePacket(pc_ip, seq, TimeNs(clock),
                                                 JpegBytes(frame))
                         /\ frames_sent' = IncDigits(frames_sent)
                         /\ seq' = IncDigits(seq)
                         /\ nsent' = nsent + 1
                    ELSE /\ packet' = NoPacket
                         /\ seq' = IF nsent < MaxSent THEN IncDigits(seq) ELSE seq
                         /\ UNCHANGED <<frames_sent, nsent>>
  /\ frame' = 0
  /\ reply' = NoReply /\ warned' = FALSE /\ conn' = NoConn /\ UNCHANGED sideVars
  /\ UNCHANGED <<streaming, recording, pc_ip, frames_recorded, recording_file,
                 recording_start_time, video_writer, running, filepath,
                 camera, envVars, histVars, cmdVars, statusVars>>

\* jpeg = imencode(frame); header = header_struct.pack(seq, time_ns());
\* if state.pc_ip: try: sendto; frames_sent += 1; seq += 1; except: pass
PipeSend ==
  /\ pipe_pc = "send"
  /\ IF ~FitsU32(seq)
     THEN \* header_struct.pack raises struct.error, outside any try/except
          /\ pipe_exc' = "struct.error" /\ pipe_pc' = "finally"
          /\ packet' = NoPacket
          /\ UNCHANGED <<frames_sent, seq, nsent>>
     ELSE /\ pipe_exc' = pipe_exc /\ pipe_pc' = "cap_check"
          /\ IF pc_ip = "None"
             THEN packet' = NoPacket /\ UNCHANGED <<frames_sent, seq, nsent>>
             ELSE \E sent \in {FALSE, nsent < MaxSent} :
                    IF sent
                    THEN /\ packet' = MakePacket(pc_ip, seq, TimeNs(clock),
                                                 JpegBytes(frame))
                         /\ frames_sent' = IncDigits(frames_sent)
                         /\ seq' = IncDigits(seq)
                         /\ nsent' = nsent + 1
                    ELSE packet' = NoPacket /\ UNCHANGED <<frames_sent, seq, nsent>>
  /\ frame' = 0
  /\ reply' = NoReply /\ warned' = FALSE /\ conn' = NoConn /\ UNCHANGED sideVars
  /\ UNCHANGED <<streaming, recording, pc_ip, frames_recorded, recording_file,
                 recording_start_time, video_writer, running, filepath,
                 camera, envVars, histVars, cmdVars, statusVars>>

\* if state.recording and state.recording_file:   (read outside the lock)
PipeCapCheck ==
  /\ pipe_pc = "cap_check"
  /\ pipe_pc' = IF recording /\ recording_file # 0 THEN "cap_join" ELSE "loop"
  /\ PipeLocalStep
  /\ UNCHANGED <<pipe_exc, seq, frame, filepath, camera>>

\* filepath = os.path.join(RECORDING_DIR, state.recording_file): a second
\* read outside the lock; os.path.join raises TypeError on None
PipeCapJoin ==
  /\ pipe_pc = "cap_join"
  /\ IF recording_file = 0
     THEN pipe_exc' = "TypeError" /\ pipe_pc' = "finally" /\ filepath' = 0
     ELSE pipe_exc' = pipe_exc /\ pipe_pc' = "cap_size" /\ filepath' = recording_file
  /\ PipeLocalStep
  /\ UNCHANGED <<seq, frame, camera>>

\* if os.path.exists(filepath): if getsize(filepath) / (1024 * 1024) > MAX: ...
PipeCapSize ==
  /\ pipe_pc = "cap_size"
  /\ pipe_pc' = IF disk[filepath] >= 0 /\ OverCap(disk[filepath])
                THEN "cap_stop" ELSE "loop"
  /\ filepath' = 0
  /\ PipeLocalStep
  /\ UNCHANGED <<pipe_exc, seq, frame, camera>>

\* print("Recording size limit reached ..."); state.stop_recording()
\* (the result is dropped)
PipeCapStop ==
  /\ pipe_pc = "cap_stop"
  /\ ApplyRecordingFields(stop_recording)
  /\ pipe_pc' = "loop"
  /\ packet' = NoPacket /\ reply' = NoReply /\ warned' = TRUE /\ conn' = NoConn /\ UNCHANGED sideVars
  /\ UNCHANGED <<streaming, pc_ip, frames_sent, frames_recorded, running,
                 pipe_exc, seq, frame, filepath, camera, envVars, nsent,
                 histVars, cmdVars, statusVars>>

\* the end of the finally block: camera.release(); sock.close().  A pending
\* struct.error or TypeError then leaves stream_video and __main__, which
\* catches only KeyboardInterrupt: the main thread dies.
Release ==
  /\ camera' = "released"
  /\ pipe_pc' = IF pipe_exc = "none" THEN "returned" ELSE "died"

\* finally: if state.recording:   (read outside the lock)
PipeFinally ==
  /\ pipe_pc = "finally"
  /\ IF recording THEN pipe_pc' = "finally_stop" /\ camera' = camera
     ELSE Release
  /\ PipeLocalStep
  /\ UNCHANGED <<pipe_exc, seq, frame, filepath>>

\* finally: state.stop_recording(); camera.release(); sock.close()
PipeFinallyStop ==
  /\ pipe_pc = "finally_stop"
  /\ ApplyRecordingFields(stop_recording)
  /\ Release
  /\ Quiet
  /\ UNCHANGED <<streaming, pc_ip, frames_sent, frames_recorded, running,
                 pipe_exc, seq, frame, filepath, envVars, nsent, histVars,
                 cmdVars, statusVars>>

\* KeyboardInterrupt in the main thread, taken between two steps.  Inside
\* the try block stream_video's handler catches it and the finally block
\* runs; elsewhere it reaches __main__, which sets running[0] = False.
Interrupt ==
  /\ \/ /\ InTry
        /\ pipe_pc' = "finally"
        /\ UNCHANGED running
     \/ /\ pipe_pc = "start" \/ InFinally
        /\ pipe_pc' = "returned"
        /\ running' = FALSE
  /\ frame' = 0 /\ filepath' = 0
  /\ Quiet
  /\ UNCHANGED <<stateVars, pipe_exc, seq, camera, envVars, nsent, histVars,
                 cmdVars, statusVars>>

\* the wall clock advances
Tick ==
  /\ ProcessAlive
  /\ clock < MaxClock
  /\ clock' = clock + 1
  /\ Quiet
  /\ UNCHANGED <<stateVars, running, pipeVars, disk, nsent, histVars, cmdVars,
                 statusVars>>

\* ----------------------------------------------- listen_for_commands
\* sock.bind(("0.0.0.0", COMMAND_PORT)); on OSError: return
CmdBind ==
  /\ ProcessAlive
  /\ cmd_pc = "bind"
  /\ \E ok \in BOOLEAN : cmd_pc' = IF ok THEN "loop" ELSE "exited"
  /\ Quiet
  /\ UNCHANGED <<stateVars, running, pipeVars, envVars, nsent, histVars,
                 statusVars>>

\* sock.sendto(response.encode(), addr)
\* the reply addressed to the video destination instead of the sender
SendReply_toStreamDest(addr, msg) == reply' = [to |-> pc_ip] @@ msg

SendReply(addr, msg) == reply' = [to |-> addr] @@ msg

\* the START branch without its assignment to state.pc_ip
DoStart_streamingOnly(addr) ==
  /\ streaming' = TRUE
  /\ SendReply(addr, Msg("STREAMING_STARTED"))
  /\ lastStream' = "START"
  /\ UNCHANGED <<recording, pc_ip, frames_sent, frames_recorded, recording_file,
                 recording_start_time, video_writer, running, disk, overWrites>>

\* the START branch keeping a destination it already has
DoStart_firstSenderOnly(addr) ==
  /\ streaming' = TRUE
  /\ pc_ip' = IF pc_ip = "None" THEN addr ELSE pc_ip
  /\ SendReply(addr, Msg("STREAMING_STARTED"))
  /\ lastStream' = "START"
  /\ UNCHANGED <<recording, frames_sent, frames_recorded, recording_file,
                 recording_start_time, video_writer, running, disk, overWrites>>

\* command == "START"
DoStart(addr) ==
  /\ streaming' = TRUE
  /\ pc_ip' = addr
  /\ SendReply(addr, Msg("STREAMING_STARTED"))
  /\ lastStream' = "START"
  /\ UNCHANGED <<recording, frames_sent, frames_recorded, recording_file,
                 recording_start_time, video_writer, running, disk, overWrites>>

\* the STOP branch without its assignment to state.streaming
DoStop_noAssign(addr) ==
  /\ SendReply(addr, Msg("STREAMING_STOPPED"))
  /\ lastStream' = "STOP"
  /\ UNCHANGED <<streaming, recording, pc_ip, frames_sent, frames_recorded,
                 recording_file, recording_start_time, video_writer, running,
                 disk, overWrites>>

\* command == "STOP"
DoStop(addr) ==
  /\ streaming' = FALSE
  /\ SendReply(addr, Msg("STREAMING_STOPPED"))
  /\ lastStream' = "STOP"
  /\ UNCHANGED <<recording, pc_ip, frames_sent, frames_recorded, recording_file,
                 recording_start_time, video_writer, running, disk, overWrites>>

\* command == "RECORD_START": success, msg = state.start_recording()
DoRecordStart(addr) ==
  /\ \E openOk \in BOOLEAN :
       LET r == start_recording(openOk) IN
         /\ ApplyRecordingFields(r)
         /\ frames_recorded' = r.frames_recorded
         /\ disk' = r.disk
         /\ SendReply(addr, r.msg)
         /\ overWrites' = IF r.success THEN 0 ELSE overWrites
  /\ UNCHANGED <<streaming, pc_ip, frames_sent, running, lastStream>>

\* command == "RECORD_STOP": success, msg = state.stop_recording()
DoRecordStop(addr) ==
  /\ LET r == stop_recording IN
       /\ ApplyRecordingFields(r)
       /\ SendReply(addr, r.msg)
  /\ UNCHANGED <<streaming, pc_ip, frames_sent, frames_recorded, running, disk,
                 histVars>>

\* command == "PING"
DoPing(addr) ==
  /\ SendReply(addr, Msg("PONG"))
  /\ UNCHANGED <<stateVars, running, disk, histVars>>

\* the SHUTDOWN branch without "running_flag[0] = False"
DoShutdown_noFlag(addr) ==
  /\ SendReply(addr, Msg("SHUTTING_DOWN"))
  /\ UNCHANGED <<stateVars, running, disk, histVars>>

\* command == "SHUTDOWN"
DoShutdown(addr) ==
  /\ running' = FALSE
  /\ SendReply(addr, Msg("SHUTTING_DOWN"))
  /\ UNCHANGED <<stateVars, disk, histVars>>

\* the else case treating text it does not know as STOP
DoOther_stopsStreaming(addr) ==
  /\ SendReply(addr, Msg("OK"))
  /\ streaming' = FALSE
  /\ UNCHANGED <<recording, pc_ip, frames_sent, frames_recorded,
                 recording_file, recording_start_time, video_writer,
                 running, disk, histVars>>

\* no branch taken: response = "OK"
DoOther(addr) ==
  /\ SendReply(addr, Msg("OK"))
  /\ UNCHANGED <<stateVars, running, disk, histVars>>

\* One pass of the loop body for the datagram data from addr:
\* data, addr = sock.recvfrom(1024); command = data.decode(...).strip().upper();
\* the if/elif chain; sock.sendto(response.encode(), addr).
\* A UnicodeDecodeError is caught by "except Exception": nothing is sent.
Receive(data, addr) ==
  /\ ProcessAlive
  /\ cmd_pc = "loop"
  /\ running
  /\ IF ~Decoded[data].ok
     THEN /\ reply' = NoReply
          /\ UNCHANGED <<stateVars, running, disk, histVars>>
     ELSE LET command == Decoded[data].command IN
          CASE command = CMD_START -> DoStart(addr)
            [] command = CMD_STOP -> DoStop(addr)
            [] command = CMD_RECORD_START -> DoRecordStart(addr)
            [] command = CMD_RECORD_STOP -> DoRecordStop(addr)
            [] command = CMD_PING -> DoPing(addr)
            [] command = CMD_SHUTDOWN -> DoShutdown(addr)
            [] OTHER -> DoOther(addr)
  /\ packet' = NoPacket /\ warned' = FALSE /\ conn' = NoConn /\ UNCHANGED sideVars
  /\ UNCHANGED <<pipeVars, clock, nsent, cmd_pc, statusVars>>

CmdReceive == \E data \in Datagrams, addr \in Addrs : Receive(data, addr)

\* while running_flag[0] is false: sock.close()
CmdLoopExit ==
  /\ ProcessAlive
  /\ cmd_pc = "loop"
  /\ ~running
  /\ cmd_pc' = "exited"
  /\ Quiet
  /\ UNCHANGED <<stateVars, running, pipeVars, envVars, nsent, histVars,
                 statusVars>>

\* ------------------------------------------------------ status_server
\* sock.bind(("0.0.0.0", STATUS_PORT)); sock.listen(5)
\* (a bind that fails ends status_server at once: the port is taken to be free)
StatusBind ==
  /\ ProcessAlive
  /\ status_pc = "bind"
  /\ status_pc' = "accept"
  /\ Quiet
  /\ UNCHANGED <<stateVars, running, pipeVars, envVars, nsent, histVars,
                 cmdVars>>

\* while running_flag[0] is false: the with block closes the socket
StatusLoopExit ==
  /\ ProcessAlive
  /\ status_pc = "accept"
  /\ ~running
  /\ status_pc' = "exited"
  /\ Quiet
  /\ UNCHANGED <<stateVars, running, pipeVars, envVars, nsent, histVars,
                 cmdVars>>

\* ----------------------------------------------- handle_status_client
\* A request is a sequence of tokens: a word, a whitespace character, a path
\* separator, or "0xFF" for a byte that is not valid UTF-8.

\* f"recording_{timestamp}.avi" as a token
RecordingName(f) ==
  CASE f = 1 -> "recording_1.avi" [] f = 2 -> "recording_2.avi"
    [] f = 3 -> "recording_3.avi" [] OTHER -> "recording_4.avi"

\* get_stats with the two times of the duration exchanged
get_stats_startMinusNow ==
  [streaming |-> streaming,
   recording |-> recording,
   frames_sent |-> frames_sent,
   frames_recorded |-> frames_recorded,
   recording_duration |->
     IF recording /\ recording_start_time # 0
     THEN (recording_start_time - clock) \div TicksPerSecond ELSE 0,
   recording_file |-> recording_file]

\* StreamState.get_stats(): the fields that vary (fps, quality, resolution
\* and camera_type are constants; uptime_seconds is left out)
get_stats ==
  [streaming |-> streaming,
   recording |-> recording,
   frames_sent |-> frames_sent,
   frames_recorded |-> frames_recorded,
   recording_duration |->
     IF recording /\ recording_start_time # 0
     THEN (clock - recording_start_time) \div TicksPerSecond ELSE 0,
   recording_file |-> recording_file]

\* os.path.join(RECORDING_DIR, filename): an absolute filename replaces the
\* directory, an empty one gives the directory itself
JoinPath(filename) ==
  IF filename # <<>> /\ Head(filename) = "/" THEN filename
  ELSE <<"RECORDING_DIR", "/">> \o filename

\* bytes of the file /home/pi/notes.txt, next to the recordings directory
NotesBytes == 7

\* what the file system holds at a path: the recordings directory, its
\* recordings, and one file in its parent directory
FsLookup(path) ==
  IF path = <<"RECORDING_DIR", "/">> THEN [kind |-> "dir", size |-> 4096]
  ELSE IF \E f \in FileNames :
            path = <<"RECORDING_DIR", "/", RecordingName(f)>> /\ disk[f] >= 0
  THEN LET f == CHOOSE f \in FileNames :
                  path = <<"RECORDING_DIR", "/", RecordingName(f)>>
       IN [kind |-> "file", size |-> disk[f]]
  ELSE IF path = <<"RECORDING_DIR", "/", "..", "/", "notes.txt">>
  THEN [kind |-> "file", size |-> NotesBytes]
  ELSE [kind |-> "absent", size |-> 0]

REQ_STATUS == <<"STATUS">>
REQ_LIST_RECORDINGS == <<"LIST_RECORDINGS">>
DownloadRequest(filename) == <<"DOWNLOAD:", " ">> \o filename \o <<"\n">>

\* the requests status clients send
StatusRequests ==
  { REQ_STATUS, REQ_LIST_RECORDINGS, <<"status">>, <<"0xFF">>,
    DownloadRequest(<<"nofile.avi">>),
    DownloadRequest(<<>>),
    DownloadRequest(<<"..", "/", "notes.txt">>) }
  \cup {DownloadRequest(<<RecordingName(f)>>) : f \in FileNames}

\* what can go wrong in one handler: conn.recv times out after 5 s
\* ("timeout"), the client closes its end while the file is being sent
\* ("disconnect"), os.listdir(RECORDING_DIR) raises OSError ("nodir")
\* The connections status clients make: a request and what goes wrong while
\* it is served (a fault is paired with the requests it can strike).
StatusExchanges ==
  {<<data, "none">> : data \in StatusRequests}
  \cup {<<<<>>, "timeout">>, <<REQ_LIST_RECORDINGS, "nodir">>}
  \cup {<<DownloadRequest(<<RecordingName(f)>>), "disconnect">> : f \in FileNames}

\* the sendall calls of the DOWNLOAD branch for the stripped request data;
\* with the fault "disconnect" a sendall of the chunk loop raises
\* BrokenPipeError and only part of the file has gone out
DownloadSends(data, fault) ==
  LET filename == Strip(Tail(data))
      found == FsLookup(JoinPath(filename))
  IN IF found.kind = "absent"
     THEN <<[kind |-> "ERROR: File not found"]>>
     ELSE <<[kind |-> "SIZE", size |-> found.size]>>
          \o (IF found.kind = "file" /\ found.size > 0 \* open() fails on a directory
              THEN <<[kind |-> IF fault = "disconnect" THEN "partial" ELSE "data",
                      size |-> found.size]>>
              ELSE <<>>)

\* handle_status_client with conn.close() at the end of the try block instead
\* of in a finally block
HandleStatusClient_closeInTry(data, fault) ==
  /\ ProcessAlive
  /\ status_pc = "accept"
  /\ running
  /\ LET request == Strip(data)
         sends ==
           IF fault = "timeout" \/ ~Decodable(data) THEN <<>>
           ELSE IF request = REQ_STATUS
           THEN <<[kind |-> "json", stats |-> get_stats]>>
           ELSE IF request = REQ_LIST_RECORDINGS
           THEN IF fault = "nodir" THEN <<>>
                ELSE <<[kind |-> "json",
                        files |-> {f \in FileNames : disk[f] >= 0}]>>
           ELSE IF request # <<>> /\ Head(request) = "DOWNLOAD:"
           THEN DownloadSends(request, fault)
           ELSE <<>>
         raised ==
           \/ fault = "timeout" \/ ~Decodable(data)
           \/ fault = "nodir" /\ request = REQ_LIST_RECORDINGS
           \/ \E i \in 1..Len(sends) : sends[i].kind = "partial"
     IN conn' = [request |-> IF fault = "timeout" THEN <<>> ELSE data,
                 sent |-> sends, closed |-> ~raised, fault |-> fault]
  /\ packet' = NoPacket /\ reply' = NoReply /\ warned' = FALSE
  /\ UNCHANGED <<stateVars, running, pipeVars, envVars, nsent, histVars,
                 cmdVars, statusVars, sideVars>>

\* handle_status_client(conn, addr) for a connection whose client sends data:
\* one recv, the branch taken, conn.close() in the finally block.  An
\* exception (socket.timeout, UnicodeDecodeError, OSError of listdir,
\* IsADirectoryError, BrokenPipeError) is caught and only printed.
HandleStatusClient(data, fault) ==
  /\ ProcessAlive
  /\ status_pc = "accept"
  /\ running
  /\ LET request == Strip(data)
         sends ==
           IF fault = "timeout" \/ ~Decodable(data) THEN <<>>
           ELSE IF request = REQ_STATUS
           THEN <<[kind |-> "json", stats |-> get_stats]>>
           ELSE IF request = REQ_LIST_RECORDINGS
           THEN IF fault = "nodir" THEN <<>>
                ELSE <<[kind |-> "json",
                        files |-> {f \in FileNames : disk[f] >= 0}]>>
           ELSE IF request # <<>> /\ Head(request) = "DOWNLOAD:"
           THEN DownloadSends(request, fault)
           ELSE <<>>
     IN conn' = [request |-> IF fault = "timeout" THEN <<>> ELSE data,
                 sent |-> sends, closed |-> TRUE, fault |-> fault]
  /\ packet' = NoPacket /\ reply' = NoReply /\ warned' = FALSE
  /\ UNCHANGED <<stateVars, running, pipeVars, envVars, nsent, histVars,
                 cmdVars, statusVars, sideVars>>

StatusClient ==
  \E x \in StatusExchanges : HandleStatusClient(x[1], x[2])

\* ------------------------------------------------------ specification
Pipeline ==
  \/ PipeStart \/ PipeLoop \/ PipeRead \/ PipeWrite \/ PipeSend
  \/ PipeCapCheck \/ PipeCapJoin \/ PipeCapSize \/ PipeCapStop
  \/ PipeFinally \/ PipeFinallyStop

Next ==
  \/ Pipeline
  \/ Interrupt
  \/ Tick
  \/ CmdBind \/ CmdReceive \/ CmdLoopExit
  \/ StatusBind \/ StatusLoopExit

\* the program while no status client connects
Spec == Init /\ [][Next]_vars

\* the program with status clients connecting
StatusNext == Next \/ StatusClient

StatusSpec == Init /\ [][StatusNext]_vars

\* ------------------------------------------- stream_video with time
\* The loop of stream_video with the time its statements take, in ticks of
\* 1/30 s, while running_flag[0] is true.  A statement takes 0..MaxStep
\* ticks; time.sleep(t) returns after t ticks or one tick later.

\* time.sleep(t): the time at which it returns when called at time at
SleepReturns(at, t) == {at + t, at + t + 1}

\* the FPS throttle subtracting one tick too many: it sleeps too little
ThrottleSleep_tooShort ==
  /\ pipe_pc = "sleep"
  /\ LET sleep_time == (TicksPerFrame - elapsed) - 1 IN
       IF sleep_time > 0
       THEN \E t \in SleepReturns(now, sleep_time) : t <= MaxNow /\ now' = t
       ELSE now' = now
  /\ pipe_pc' = "loop"
  /\ elapsed' = 0
  /\ UNCHANGED <<loop_start, sendTimes, startTimes, streaming>>

\* if not state.streaming: time.sleep(0.1); continue
\* else: loop_start = time.time()
ThrottleLoop ==
  /\ pipe_pc = "loop"
  /\ IF ~streaming
     THEN /\ \E t \in SleepReturns(now, IdleSleepTicks) : t <= MaxNow /\ now' = t
          /\ pipe_pc' = "loop"
          /\ UNCHANGED loop_start
     ELSE /\ loop_start' = now
          /\ pipe_pc' = "read"
          /\ now' = now
  /\ UNCHANGED <<elapsed, sendTimes, startTimes, streaming>>

\* frame = camera.read(); if frame is None: time.sleep(0.1); continue
ThrottleRead ==
  /\ pipe_pc = "read"
  /\ \E d \in 0..MaxStep :
       \/ /\ \E t \in SleepReturns(now + d, IdleSleepTicks) :
               t <= MaxNow /\ now' = t
          /\ pipe_pc' = "loop"
       \/ /\ now + d <= MaxNow /\ now' = now + d
          /\ pipe_pc' = "send"
  /\ UNCHANGED <<loop_start, elapsed, sendTimes, startTimes, streaming>>

\* resize, write_frame, imencode, pack; if state.pc_ip: sendto (it succeeds,
\* or it fails, or there is no destination)
ThrottleSend ==
  /\ pipe_pc = "send"
  /\ \E d \in 0..MaxStep, sent \in BOOLEAN :
       /\ now + d <= MaxNow /\ now' = now + d
       /\ IF sent
          THEN /\ sendTimes' = Append(sendTimes, now + d)
               /\ startTimes' = Append(startTimes, loop_start)
          ELSE UNCHANGED <<sendTimes, startTimes>>
  /\ pipe_pc' = "elapsed"
  /\ UNCHANGED <<loop_start, elapsed, streaming>>

\* the size-cap check and the statistics; elapsed = time.time() - loop_start
ThrottleElapsed ==
  /\ pipe_pc = "elapsed"
  /\ \E d \in 0..MaxStep :
       /\ now + d <= MaxNow /\ now' = now + d
       /\ elapsed' = (now + d) - loop_start
  /\ pipe_pc' = "sleep"
  /\ UNCHANGED <<loop_start, sendTimes, startTimes, streaming>>

\* sleep_time = (1.0 / state.fps) - elapsed
\* if sleep_time > 0: time.sleep(sleep_time)
ThrottleSleep ==
  /\ pipe_pc = "sleep"
  /\ LET sleep_time == TicksPerFrame - elapsed IN
       IF sleep_time > 0
       THEN \E t \in SleepReturns(now, sleep_time) : t <= MaxNow /\ now' = t
       ELSE now' = now
  /\ pipe_pc' = "loop"
  /\ elapsed' = 0
  /\ UNCHANGED <<loop_start, sendTimes, startTimes, streaming>>

\* the listener processes a START or a STOP
ThrottleToggle ==
  /\ streaming' = ~streaming
  /\ UNCHANGED <<pipe_pc, timeVars>>

\* the fields the timed view does not follow
untimedVars ==
  <<recording, pc_ip, frames_sent, frames_recorded, recording_file,
    recording_start_time, video_writer, running, pipe_exc, seq, frame,
    filepath, camera, envVars, outVars, nsent, histVars, cmdVars, statusVars>>

ThrottleInit ==
  /\ InitLongRun
  /\ InitRest
  /\ TimeIdle /\ BridgeIdle /\ LwInit

ThrottleNext ==
  /\ \/ ThrottleLoop \/ ThrottleRead \/ ThrottleSend \/ ThrottleElapsed
     \/ ThrottleSleep \/ ThrottleToggle
  /\ UNCHANGED <<untimedVars, bridgeVars, lwVars>>

ThrottleSpec == ThrottleInit /\ [][ThrottleNext]_vars

\* ------------------------------- web_bridge.py: download_recording
\* Bytes are tokens: a character of a text, or "b" for a byte of a file.

\* most bytes in a recording the bridge downloads
MaxFileBytes == 3

\* conn.sendall(b"ERROR: File not found") of handle_status_client: no newline
NotFoundText ==
  <<"E", "R", "R", "O", "R", ":", " ", "F", "i", "l", "e", " ",
    "n", "o", "t", " ", "f", "o", "u", "n", "d">>

DigitChar(n) == CASE n = 0 -> "0" [] n = 1 -> "1" [] n = 2 -> "2"
                  [] n = 3 -> "3" [] OTHER -> "4"
DigitValue(c) == CASE c = "0" -> 0 [] c = "1" -> 1 [] c = "2" -> 2
                   [] c = "3" -> 3 [] OTHER -> 4

\* f"SIZE:{filesize}\n" of handle_status_client
SizeLine(n) == <<"S", "I", "Z", "E", ":", DigitChar(n), "\n">>
FileBytes(n) == [i \in 1..n |-> "b"]

\* What the Pi's handler does with the connection of one DOWNLOAD request:
\* the bytes it sends, and whether it then closes (its finally block) or
\* hangs with the connection open.
PiReplies ==
  {[kind |-> "notfound", bytes |-> NotFoundText, then |-> "closed"]}
  \cup {[kind |-> "file", bytes |-> SizeLine(n) \o FileBytes(n), then |-> "closed"] :
          n \in 0..MaxFileBytes}
  \cup {[kind |-> "cut", bytes |-> SizeLine(n) \o FileBytes(n - 1), then |-> "closed"] :
          n \in 1..MaxFileBytes}
  \cup {[kind |-> "hung", bytes |-> SizeLine(n) \o FileBytes(n - 1), then |-> "stalled"] :
          n \in 1..MaxFileBytes}
  \cup {[kind |-> "hung", bytes |-> <<>>, then |-> "stalled"]}

\* sock.connect((PI_IP, STATUS_PORT)); sock.sendall(f"DOWNLOAD:{filename}");
\* size_line = b"".  A connect that fails raises: send_error(500).
BridgeRequest ==
  /\ br_pc = "idle"
  /\ \/ \E r \in PiReplies :
          /\ pi_reply' = r.kind /\ br_sock' = r.bytes /\ br_peer' = r.then
          /\ br_pc' = "size_test" /\ br_http' = 0
       \/ /\ pi_reply' = "unreachable" /\ br_sock' = <<>> /\ br_peer' = "closed"
          /\ br_pc' = "done" /\ br_http' = 500
  /\ size_line' = <<>> /\ file_size' = 0 /\ bytes_received' = 0

\* while b"\n" not in size_line:
BridgeSizeTest ==
  /\ br_pc = "size_test"
  /\ br_pc' = IF \E i \in 1..Len(size_line) : size_line[i] = "\n"
              THEN "parse" ELSE "size_recv"
  /\ UNCHANGED <<pi_reply, br_sock, br_peer, size_line, file_size,
                 bytes_received, br_http>>

\* size_line += sock.recv(1): the next byte; b"" once the Pi has closed and
\* all its bytes are read; socket.timeout after 10 s if the Pi sends nothing
\* and does not close (except Exception: send_error(500))
BridgeSizeRecv ==
  /\ br_pc = "size_recv"
  /\ IF br_sock # <<>>
     THEN /\ size_line' = Append(size_line, Head(br_sock))
          /\ br_sock' = Tail(br_sock)
          /\ br_pc' = "size_test" /\ br_http' = br_http
     ELSE IF br_peer = "stalled"
     THEN /\ br_pc' = "done" /\ br_http' = 500
          /\ UNCHANGED <<size_line, br_sock>>
     ELSE /\ br_pc' = "size_test"
          /\ UNCHANGED <<size_line, br_sock, br_http>>
  /\ UNCHANGED <<pi_reply, br_peer, file_size, bytes_received>>

\* size_str = size_line.decode('utf-8').strip()
\* if size_str.startswith("SIZE:"): file_size = int(...); send_response(200)
\* else: send_error(404, "File not found"); sock.close()
BridgeParse ==
  /\ br_pc = "parse"
  /\ LET size_str == Strip(size_line) IN
       IF Len(size_str) >= 5 /\ SubSeq(size_str, 1, 5) = <<"S", "I", "Z", "E", ":">>
       THEN /\ file_size' = DigitValue(size_str[6])
            /\ br_http' = 200
            /\ br_pc' = "stream"
       ELSE /\ br_http' = 404
            /\ br_pc' = "done"
            /\ file_size' = file_size
  /\ UNCHANGED <<pi_reply, br_sock, br_peer, size_line, bytes_received>>

\* while bytes_received < file_size: chunk = sock.recv(min(8192, ...));
\* if not chunk: break; self.wfile.write(chunk); bytes_received += len(chunk)
\* A socket.timeout ends the handler after the 200 headers have gone out.
BridgeStream ==
  /\ br_pc = "stream"
  /\ IF bytes_received >= file_size
     THEN br_pc' = "done" /\ UNCHANGED <<br_sock, bytes_received>>
     ELSE IF br_sock # <<>>
     THEN \E k \in 1..Len(br_sock) :
            /\ k <= file_size - bytes_received
            /\ br_sock' = SubSeq(br_sock, k + 1, Len(br_sock))
            /\ bytes_received' = bytes_received + k
            /\ br_pc' = "stream"
     ELSE br_pc' = "done" /\ UNCHANGED <<br_sock, bytes_received>>
  /\ UNCHANGED <<pi_reply, br_peer, size_line, file_size, br_http>>

\* the handler has returned; serve_forever takes the next request
BridgeFinish ==
  /\ br_pc = "done"
  /\ br_pc' = "idle" /\ pi_reply' = "none" /\ br_sock' = <<>>
  /\ br_peer' = "closed" /\ size_line' = <<>> /\ file_size' = 0
  /\ bytes_received' = 0 /\ br_http' = 0

\* the variables of pi_server_enhanced.py's untimed model
mainVars ==
  <<stateVars, running, pipeVars, envVars, outVars, nsent, histVars,
    cmdVars, statusVars>>

\* the steps of download_recording once the request is sent
BridgeHandlerStep ==
  /\ BridgeSizeTest \/ BridgeSizeRecv \/ BridgeParse \/ BridgeStream
  /\ UNCHANGED <<mainVars, timeVars, lwVars>>

BridgeInit ==
  /\ InitFresh
  /\ InitRest
  /\ TimeIdle /\ BridgeIdle /\ LwInit

BridgeNext ==
  \/ BridgeHandlerStep
  \/ /\ BridgeRequest \/ BridgeFinish
     /\ UNCHANGED <<mainVars, timeVars, lwVars>>

BridgeSpec == BridgeInit /\ [][BridgeNext]_vars

\* the handler thread of the HTTP server keeps running
BridgeFairSpec == BridgeSpec /\ WF_vars(BridgeHandlerStep)

\* ===================================================================
\* main_lightweight.py: the lightweight server
\* ===================================================================
\* stream_video runs in the main thread and listen_for_commands in a daemon
\* thread; they share running_flag[0].  The process ends when stream_video
\* returns, and the daemon thread ends with it.

\* seq counts the packets sent; the model follows it up to LwMaxSeq
LwMaxSeq == 2

\* the datagrams the lightweight listener is sent
LwDatagrams ==
  { CMD_STOP, <<" ", "s", "t", "o", "p", "\n">>,
    CMD_PING, <<"p", "i", "n", "g", "\n">>,
    CMD_START, <<" ">>, <<>>,
    <<"S", "T", "O", "P", "0xFF">> }

\* the step handed nothing to either socket
LwNoOutput == lw_reply' = NoReply /\ lw_packet' = FALSE

\* camera = SimpleCamera(); if not camera.start(): return; sock = socket(...)
LwCameraStart ==
  /\ lw_pc = "start"
  /\ \E ok \in BOOLEAN :
       IF ok
       THEN lw_camera' = "started" /\ lw_sock' = "open" /\ lw_pc' = "test"
       ELSE lw_camera' = "failed" /\ lw_sock' = lw_sock /\ lw_pc' = "returned"
  /\ LwNoOutput
  /\ UNCHANGED <<lw_running, lw_cmd_pc, lw_seq>>

\* while running_flag[0]:
LwLoopTest ==
  /\ lw_pc = "test"
  /\ lw_pc' = IF lw_running THEN "read" ELSE "finally"
  /\ LwNoOutput
  /\ UNCHANGED <<lw_running, lw_cmd_pc, lw_camera, lw_sock, lw_seq>>

\* frame = camera.read(); if frame is None: time.sleep(0.1); continue
LwRead ==
  /\ lw_pc = "read"
  /\ \E got \in BOOLEAN : lw_pc' = IF got THEN "send" ELSE "test"
  /\ LwNoOutput
  /\ UNCHANGED <<lw_running, lw_cmd_pc, lw_camera, lw_sock, lw_seq>>

\* encode, pack, then try: sock.sendto(packet, ...); seq += 1  except: pass
LwSend ==
  /\ lw_pc = "send"
  /\ \/ /\ lw_seq < LwMaxSeq
        /\ lw_packet' = TRUE /\ lw_seq' = lw_seq + 1
     \/ /\ lw_packet' = FALSE /\ lw_seq' = lw_seq
  /\ lw_reply' = NoReply
  /\ lw_pc' = "throttle"
  /\ UNCHANGED <<lw_running, lw_cmd_pc, lw_camera, lw_sock>>

\* elapsed, sleep_time, time.sleep(sleep_time); back to the loop test
LwThrottle ==
  /\ lw_pc = "throttle"
  /\ lw_pc' = "test"
  /\ LwNoOutput
  /\ UNCHANGED <<lw_running, lw_cmd_pc, lw_camera, lw_sock, lw_seq>>

\* KeyboardInterrupt raised inside the try block: except, then finally
LwInterrupt ==
  /\ lw_pc \in {"test", "read", "send", "throttle"}
  /\ lw_pc' = "finally"
  /\ LwNoOutput
  /\ UNCHANGED <<lw_running, lw_cmd_pc, lw_camera, lw_sock, lw_seq>>

\* finally: camera.release(); sock.close(); stream_video returns
LwFinally ==
  /\ lw_pc = "finally"
  /\ lw_camera' = "released" /\ lw_sock' = "closed" /\ lw_pc' = "returned"
  /\ LwNoOutput
  /\ UNCHANGED <<lw_running, lw_cmd_pc, lw_seq>>

\* sock.bind(("0.0.0.0", 5002)); except OSError: return
LwCmdBind ==
  /\ lw_pc # "returned"
  /\ lw_cmd_pc = "bind"
  /\ \E ok \in BOOLEAN : lw_cmd_pc' = IF ok THEN "test" ELSE "exited"
  /\ LwNoOutput
  /\ UNCHANGED <<lw_running, lw_pc, lw_camera, lw_sock, lw_seq>>

\* while running_flag[0]: ... ; sock.close()
LwCmdLoop ==
  /\ lw_pc # "returned"
  /\ lw_cmd_pc = "test"
  /\ lw_cmd_pc' = IF lw_running THEN "recv" ELSE "exited"
  /\ LwNoOutput
  /\ UNCHANGED <<lw_running, lw_pc, lw_camera, lw_sock, lw_seq>>

\* sock.recvfrom(1024) raises socket.timeout after 1 s: continue
LwCmdTimeout ==
  /\ lw_pc # "returned"
  /\ lw_cmd_pc = "recv"
  /\ lw_cmd_pc' = "test"
  /\ LwNoOutput
  /\ UNCHANGED <<lw_running, lw_pc, lw_camera, lw_sock, lw_seq>>

\* the try block with STOP leaving the loop but not clearing the flag
LwReceive_stopOnlyBreaks(data, addr) ==
  /\ lw_pc # "returned"
  /\ lw_cmd_pc = "recv"
  /\ IF ~Decodable(data)
     THEN /\ lw_running' = lw_running /\ lw_cmd_pc' = "test"
          /\ lw_reply' = NoReply
     ELSE IF Command(data) = CMD_STOP
     THEN /\ lw_running' = lw_running /\ lw_cmd_pc' = "exited"
          /\ lw_reply' = NoReply
     ELSE IF Command(data) = CMD_PING
     THEN /\ lw_running' = lw_running /\ lw_cmd_pc' = "test"
          /\ lw_reply' = [NoReply EXCEPT !.to = addr, !.text = "PONG"]
     ELSE /\ lw_running' = lw_running /\ lw_cmd_pc' = "test"
          /\ lw_reply' = NoReply
  /\ lw_packet' = FALSE
  /\ UNCHANGED <<lw_pc, lw_camera, lw_sock, lw_seq>>

\* data, addr = sock.recvfrom(1024) and the body of the try block
LwReceive(data, addr) ==
  /\ lw_pc # "returned"
  /\ lw_cmd_pc = "recv"
  /\ IF ~Decodable(data)
     THEN \* UnicodeDecodeError, caught by except Exception
          /\ lw_running' = lw_running /\ lw_cmd_pc' = "test"
          /\ lw_reply' = NoReply
     ELSE IF Command(data) = CMD_STOP
     THEN \* running_flag[0] = False; break; sock.close()
          /\ lw_running' = FALSE /\ lw_cmd_pc' = "exited"
          /\ lw_reply' = NoReply
     ELSE IF Command(data) = CMD_PING
     THEN /\ lw_running' = lw_running /\ lw_cmd_pc' = "test"
          /\ lw_reply' = [NoReply EXCEPT !.to = addr, !.text = "PONG"]
     ELSE /\ lw_running' = lw_running /\ lw_cmd_pc' = "test"
          /\ lw_reply' = NoReply
  /\ lw_packet' = FALSE
  /\ UNCHANGED <<lw_pc, lw_camera, lw_sock, lw_seq>>

\* the steps of stream_video, which the main thread keeps taking
LwStreamStep ==
  /\ \/ LwCameraStart
     \/ LwLoopTest
     \/ LwRead
     \/ LwSend
     \/ LwThrottle
     \/ LwFinally
  /\ UNCHANGED <<mainVars, timeVars, bridgeVars>>

\* the steps of listen_for_commands
LwListenStep ==
  /\ \/ LwCmdBind
     \/ LwCmdLoop
     \/ LwCmdTimeout
     \/ \E data \in LwDatagrams, addr \in Addrs : LwReceive(data, addr)
  /\ UNCHANGED <<mainVars, timeVars, bridgeVars>>

LwStart ==
  /\ InitFresh
  /\ InitRest
  /\ TimeIdle /\ BridgeIdle /\ LwInit

LwNext ==
  \/ LwStreamStep
  \/ LwListenStep
  \/ LwInterrupt /\ UNCHANGED <<mainVars, timeVars, bridgeVars>>

LwSpec == LwStart /\ [][LwNext]_vars

\* the main thread is scheduled: an enabled step of stream_video is taken
LwFairSpec == LwSpec /\ WF_vars(LwStreamStep)

\* ===================================================================
\* Properties
\* ===================================================================

\* the writer held in video_writer is open
WriterOpen == video_writer.present /\ video_writer.opened

\* C1: in every reachable state the four recording facts agree: recording is
\* true exactly when the writer is open, exactly when recording_file is set,
\* and exactly when recording_start_time is set; so no operation (a
\* RECORD_START whose writer does not open included) changes only some of them.
C1_RecordingFactsAgree ==
  /\ recording <=> WriterOpen
  /\ recording <=> recording_file # 0
  /\ recording <=> recording_start_time # 0

\* a RECORD_START whose writer did not open has just been answered, after an
\* earlier recording had been written to and stopped
C1_FailedOpenReached ==
  /\ reply.text = "Failed to create video writer"
  /\ video_writer.present /\ ~video_writer.opened
  /\ \E f \in FileNames : disk[f] > 0

\* C2: after any sequence of commands, interleaved with pipeline iterations,
\* RECORD_* commands and PING, streaming has the value the last START or STOP
\* of the sequence gave it: true after START, false after STOP.
C2_StreamingFollowsLastCommand ==
  /\ lastStream = "START" => streaming
  /\ lastStream = "STOP" => ~streaming

\* a STOP was the last of several START / STOP commands, frames were sent in
\* between, and a PING has just been answered while a recording is on
C2_StoppedAfterStreaming ==
  /\ lastStream = "STOP" /\ nsent > 0
  /\ recording /\ reply.text = "PONG"

\* the datagrams that decode to the command c
DatagramsOf(c) == {data \in Datagrams : Decodable(data) /\ Command(data) = c}
RecordStartDatagrams == DatagramsOf(CMD_RECORD_START)
RecordStopDatagrams == DatagramsOf(CMD_RECORD_STOP)

\* C3: a RECORD_START processed while recording is true changes no field of
\* the shared state (the running writer is not replaced, its file is not
\* truncated) and is answered 'Already recording'.
C3_RecordStartWhileRecording ==
  [][\A data \in RecordStartDatagrams, addr \in Addrs :
       (recording /\ Receive(data, addr))
       => /\ UNCHANGED <<stateVars, disk>>
          /\ reply'.to = addr
          /\ reply'.text = "Already recording"]_vars

\* 'Already recording' has just been sent while the running writer holds frames
C3_AlreadyRecordingReplied ==
  /\ reply.text = "Already recording"
  /\ recording /\ video_writer.nframes > 0

\* C4: a RECORD_STOP processed while recording is false is answered
\* 'Not recording', changes no field of the shared state, and stops neither
\* the listener nor the pipeline.
C4_RecordStopWhileIdle ==
  [][\A data \in RecordStopDatagrams, addr \in Addrs :
       (~recording /\ Receive(data, addr))
       => /\ UNCHANGED <<stateVars, disk, running, cmd_pc, pipeVars>>
          /\ running' /\ cmd_pc' = "loop"
          /\ reply'.to = addr
          /\ reply'.text = "Not recording"]_vars

\* 'Not recording' has just been sent after a recording that had grown above
\* the size cap was ended, with the pipeline still in its loop
C4_NotRecordingReplied ==
  /\ reply.text = "Not recording"
  /\ \E f \in FileNames : OverCap(disk[f])
  /\ InTry /\ running

\* C5: a RECORD_START processed while recording is false, whose writer opens,
\* in one step opens the writer, sets recording, sets recording_file to the
\* name made from the current timestamp, sets recording_start_time, resets
\* frames_recorded to 0, and is answered with that filename; streaming, pc_ip
\* and frames_sent keep their values.
C5_RecordStartSucceeds ==
  [][\A data \in RecordStartDatagrams, addr \in Addrs :
       (~recording /\ Receive(data, addr) /\ video_writer'.opened)
       => /\ recording'
          /\ WriterOpen'
          /\ video_writer'.nframes = 0
          /\ recording_file' = Timestamp(clock) /\ recording_file' # 0
          /\ recording_start_time' = clock /\ recording_start_time' # 0
          /\ frames_recorded' = 0
          /\ reply'.to = addr
          /\ reply'.text = "Recording started"
          /\ reply'.file = recording_file'
          /\ UNCHANGED <<streaming, pc_ip, frames_sent>>]_vars

\* a recording has just been started while frames are being streamed
C5_RecordingStartedReplied ==
  /\ reply.text = "Recording started"
  /\ recording /\ frames_recorded = 0
  /\ streaming /\ nsent > 0

\* C6: a RECORD_STOP processed while recording is true in one step releases
\* the writer and clears recording, recording_file and recording_start_time;
\* its reply names the file that was being recorded and the number of frames
\* written to that recording since its RECORD_START.
C6_RecordStopWhileRecording ==
  [][\A data \in RecordStopDatagrams, addr \in Addrs :
       (recording /\ Receive(data, addr))
       => /\ ~recording'
          /\ video_writer' = NoWriter
          /\ recording_file' = 0
          /\ recording_start_time' = 0
          /\ reply'.to = addr
          /\ reply'.text = "Recording stopped"
          /\ reply'.file = recording_file
          /\ reply'.frames = video_writer.nframes]_vars

\* a recording that holds two frames has just been stopped by RECORD_STOP
C6_RecordingStoppedReplied ==
  /\ reply.text = "Recording stopped"
  /\ reply.frames = 2
  /\ ~recording

\* n + 1 modulo 2^32
IncU32(d) == IF FitsU32(IncDigits(d)) THEN IncDigits(d) ELSE <<>>

\* C7: the pipeline's seq starts at 0; a step that sends a frame sends it
\* under the current seq and increases seq by one modulo 2^32 (after
\* 2^32 - 1 comes 0); any other step leaves seq alone; and no step ends the
\* pipeline with a struct.error raised for a seq that does not fit the header.
C7_SeqCountsModulo ==
  [][/\ (pipe_pc = "start" /\ pipe_pc' = "loop" => seq' = <<>>)
     /\ (packet' # NoPacket => packet'.seq = seq /\ seq' = IncU32(seq))
     /\ (packet' = NoPacket => seq' = seq)
     /\ pipe_exc' # "struct.error"]_vars

\* the number a big-endian byte string denotes: its digits without leading zeros
RECURSIVE BEValue(_)
BEValue(bytes) ==
  IF bytes # <<>> /\ Head(bytes) = 0 THEN BEValue(Tail(bytes)) ELSE bytes

\* C8: every video packet sent starts with a 12-byte header; read as a
\* big-endian unsigned 32-bit field followed by a big-endian unsigned 64-bit
\* field it gives back the seq and the nanosecond timestamp the packet was
\* built from, and the bytes from offset 12 on are the encoded frame.
C8_HeaderRoundTrip ==
  packet # NoPacket =>
    /\ Len(packet.bytes) >= 12
    /\ \A i \in 1..Len(packet.bytes) : packet.bytes[i] \in 0..255
    /\ BEValue(SubSeq(packet.bytes, 1, 4)) = packet.seq
    /\ BEValue(SubSeq(packet.bytes, 5, 12)) = packet.ts
    /\ packet.ts = TimeNs(clock)
    /\ SubSeq(packet.bytes, 13, Len(packet.bytes)) = packet.jpeg

\* the packet with the largest seq the header can carry has just been sent
C8_LargestSeqSent ==
  /\ packet # NoPacket
  /\ packet.seq = <<255, 255, 255, 255>>
  /\ packet.jpeg # <<>>

\* Scheduling: the main thread keeps executing stream_video, and the two
\* daemon threads get to bind and to test running_flag[0] again (their socket
\* calls time out after one second).  Nothing obliges a datagram, a clock
\* tick or a KeyboardInterrupt to arrive.
FairSpec ==
  /\ Spec
  /\ WF_vars(Pipeline)
  /\ WF_vars(CmdBind \/ CmdLoopExit)
  /\ WF_vars(StatusBind \/ StatusLoopExit)

ShutdownDatagrams == DatagramsOf(CMD_SHUTDOWN)

\* the while loop of stream_video has been left
PipelineLoopExited == pipe_pc \in {"finally", "finally_stop", "returned", "died"}
\* the while loop of listen_for_commands has been left, or the thread has
\* ended with the process
CommandLoopExited == cmd_pc = "exited" \/ ~ProcessAlive
\* the accept loop of status_server has been left, or the thread has ended
\* with the process
StatusLoopExited == status_pc = "exited" \/ ~ProcessAlive

\* C10: processing a SHUTDOWN sets running to false and is answered
\* SHUTTING_DOWN; running never becomes true again; and under fair scheduling,
\* once running is false a state follows in which the pipeline loop, the
\* command listener loop and the status accept loop have all been left,
\* whatever the values of streaming and recording and whether or not the
\* camera delivers frames.
C10_ShutdownStopsAllLoops ==
  /\ [][\A data \in ShutdownDatagrams, addr \in Addrs :
          Receive(data, addr)
          => ~running' /\ reply'.to = addr /\ reply'.text = "SHUTTING_DOWN"]_vars
  /\ [][~running => ~running']_vars
  /\ (~running ~>
        (PipelineLoopExited /\ CommandLoopExited /\ StatusLoopExited))

\* SHUTTING_DOWN has just been sent while streaming and recording were on and
\* the pipeline was inside its loop
C10_ShutdownReplied ==
  /\ reply.text = "SHUTTING_DOWN"
  /\ ~running
  /\ streaming /\ recording
  /\ InTry

\* the file of the current recording is larger than the configured cap
RecordingOverCap ==
  recording /\ recording_file # 0 /\ AboveCap(disk[recording_file])

\* C9: no step writes a second frame to a recording whose file is already
\* above the size cap; no step brings the pipeline back to the head of its
\* loop with a recording still on whose file is above the cap (the iteration
\* that wrote past the cap has stopped it, whether or not a STOP cleared
\* streaming meanwhile); and under fair scheduling a recording whose file is
\* above the cap is stopped, with its writer released, unless the process
\* ends first.
C9_CapStopsRecording ==
  /\ [][overWrites' <= 1]_vars
  /\ [][pipe_pc' = "loop" => ~RecordingOverCap']_vars
  /\ (RecordingOverCap ~> ((~recording /\ ~video_writer.present) \/ ~ProcessAlive))

\* the pipeline has just stopped a recording above the cap, after a STOP had
\* cleared streaming while the recording went on
C9_CapStopAfterStop ==
  /\ warned
  /\ ~recording /\ ~video_writer.present
  /\ ~streaming /\ lastStream = "STOP"
  /\ \E f \in FileNames : OverCap(disk[f])

\* the file name handle_status_client takes from a DOWNLOAD request
IsDownload(data) ==
  Decodable(data) /\ Strip(data) # <<>> /\ Head(Strip(data)) = "DOWNLOAD:"
RequestedName(data) == Strip(Tail(Strip(data)))

\* the recordings directory holds a file of this name
InRecordingsDir(filename) ==
  \E f \in FileNames : filename = <<RecordingName(f)>> /\ disk[f] >= 0

\* C11: a status connection whose request is DOWNLOAD:<name>, for a name that
\* is not the name of a file in the recordings directory, is sent exactly the
\* not-found text (no SIZE preamble, no file bytes) and is then closed.
C11_MissingDownloadNotFound ==
  (conn # NoConn /\ IsDownload(conn.request)
     /\ ~InRecordingsDir(RequestedName(conn.request)))
  => /\ conn.sent = <<[kind |-> "ERROR: File not found"]>>
     /\ conn.closed

\* the step just taken answered a STATUS request
StatusAnswered ==
  conn # NoConn /\ Decodable(conn.request) /\ Strip(conn.request) = REQ_STATUS

\* C12: every STATUS reply carries the statistics of the moment it is made;
\* while one recording goes on the recording_duration a STATUS reply would
\* carry never decreases from one step to the next, so a later reply never
\* shows less than an earlier one; and a STATUS reply made while recording is
\* true shows frames_recorded equal to the number of frames written to the
\* current recording since its RECORD_START.
C12_StatusDuringRecording ==
  /\ [][recording /\ recording'
        => get_stats'.recording_duration >= get_stats.recording_duration]_vars
  /\ [][StatusAnswered'
        => /\ Len(conn'.sent) = 1
           /\ conn'.sent[1].stats = get_stats'
           /\ recording_start_time' = recording_start_time
           /\ (recording' => conn'.sent[1].stats.frames_recorded
                               = video_writer'.nframes)]_vars

\* a STATUS reply made one second into a recording that holds a frame
C12_StatusWhileRecording ==
  /\ StatusAnswered
  /\ conn.sent[1].stats.recording
  /\ conn.sent[1].stats.recording_duration >= 1
  /\ conn.sent[1].stats.frames_recorded >= 1

\* C13: shared fields are read and written only under the state lock, so a
\* value the pipeline uses is still the value it tested: when it builds the
\* path of the recording file, recording is still true and recording_file is
\* still set, as its test found them, and it never fails on a field that
\* changed between the test and the use.
C13_UseSeesTestedValue ==
  /\ pipe_pc = "cap_join" => recording /\ recording_file # 0
  /\ pipe_exc # "TypeError"

\* the datagrams data.decode('utf-8') accepts, and those it raises on
DecodableDatagrams == {data \in Datagrams : Decodable(data)}
UndecodableDatagrams == Datagrams \ DecodableDatagrams

\* C14 as stated: every datagram the listener processes, decodable or not, is
\* answered in the same pass of the loop, before the next datagram is received,
\* by one reply addressed to its sender.
C14_EveryDatagramReplied ==
  [][\A data \in Datagrams, addr \in Addrs :
       Receive(data, addr) => reply'.to = addr /\ reply'.text # ""]_vars

\* C14: every datagram that decodes as text (a command of the vocabulary, a
\* RECORD_START or RECORD_STOP that fails, or any other text) is answered in the
\* same pass of the loop by one reply addressed to its sender; a datagram that
\* does not decode is answered by nothing, changes no shared field and leaves
\* the listener in its loop.
C14_DecodableDatagramReplied ==
  [][\A addr \in Addrs :
       /\ \A data \in DecodableDatagrams :
            Receive(data, addr) => reply'.to = addr /\ reply'.text # ""
       /\ \A data \in UndecodableDatagrams :
            Receive(data, addr)
            => /\ reply' = NoReply
               /\ UNCHANGED <<stateVars, running, cmd_pc, pipeVars, disk>>]_vars

\* a datagram outside the vocabulary has just been answered 'OK' to its
\* sender, which is not the address the video is streamed to
C14_RepliedToSenderNotStreamDest ==
  /\ reply.text = "OK"
  /\ reply.to = "pcB"
  /\ pc_ip = "pcA"

StartDatagrams == DatagramsOf(CMD_START)

\* C15: every video packet is addressed to the sender of the most recently
\* processed START: processing a START makes its sender the destination, no
\* other step (STOP, RECORD_START, RECORD_STOP, PING, SHUTDOWN, any other
\* datagram, any pipeline step) changes the destination, a packet sent in a
\* step carries the destination held at that step, and while no START has set
\* a destination no packet is sent.
C15_PacketsGoToLastStartSender ==
  [][/\ \A data \in StartDatagrams, addr \in Addrs :
          Receive(data, addr) => pc_ip' = addr
     /\ pc_ip' # pc_ip
        => \E data \in StartDatagrams, addr \in Addrs : Receive(data, addr)
     /\ packet' # NoPacket => packet'.dest = pc_ip /\ pc_ip' = pc_ip
     /\ pc_ip = "None" => packet' = NoPacket]_vars

\* a packet has just gone to pcB in a process that had been streaming to pcA
\* for 2^32 - 2 frames, after a START from pcB and then a STOP
C15_PacketToNewSender ==
  /\ packet # NoPacket
  /\ packet.dest = "pcB"
  /\ packet.seq = SeqNearWrap
  /\ lastStream = "STOP"

\* C16: a send that fails drops the frame and nothing else: the step of the
\* pipeline that reaches sendto with a destination set, and hands no packet to
\* the network, leaves seq and frames_sent as they were, raises nothing and
\* goes on to the size-cap check; seq changes only in a step that sends a
\* packet, which carries the value seq had and increases it by one, so the next
\* packet sent after a failure carries the number the lost one would have had.
C16_FailedSendDropsFrame ==
  [][/\ (PipeSend /\ FitsU32(seq) /\ pc_ip # "None" /\ packet' = NoPacket)
        => /\ seq' = seq /\ frames_sent' = frames_sent
           /\ pipe_exc' = pipe_exc
           /\ pipe_pc' = "cap_check"
     /\ packet' # NoPacket => packet'.seq = seq
     /\ seq' # seq => packet' # NoPacket /\ seq' = IncDigits(seq)]_vars

\* the first packet of a run that began with 2^32 - 2 frames sent goes out in
\* the iteration that wrote the second frame of a recording: the send of the
\* iteration before it failed, and this packet carries its number
C16_SentAfterFailedSend ==
  /\ packet # NoPacket
  /\ packet.seq = SeqNearWrap
  /\ nsent = 1
  /\ video_writer.nframes = 2

\* C17: frames are written only to the open writer of the recording in
\* progress.  On every step: an open writer belongs to the recording in
\* progress (after the step too); a successful RECORD_START leaves the new,
\* empty, open writer of the file it names; an open writer changes only by
\* receiving one frame or by being released, and a release ends the
\* recording; a file's bytes and the count of recorded frames change only
\* by one write_frame on the open writer of the recording in progress, which
\* goes to that writer's file, or by a successful RECORD_START.
C17_WritesOnlyToOpenWriter ==
  [][LET started == reply'.text = "Recording started"
         wrote == /\ PipeWrite
                  /\ recording /\ video_writer.opened
                  /\ video_writer.file = recording_file
                  /\ video_writer' = [video_writer EXCEPT !.nframes = @ + 1]
                  /\ disk' = [disk EXCEPT ![recording_file] = @ + FrameBytes]
                  /\ frames_recorded' = frames_recorded + 1
         released == ~recording' /\ video_writer' = NoWriter
     IN /\ video_writer'.opened
           => recording' /\ video_writer'.file = recording_file'
        /\ started
           => /\ ~recording
              /\ video_writer' = [present |-> TRUE, opened |-> TRUE,
                                  file |-> reply'.file, nframes |-> 0]
        /\ (video_writer.opened /\ video_writer' # video_writer)
           => wrote \/ released
        /\ (disk' # disk \/ frames_recorded' # frames_recorded)
           => wrote \/ started]_vars

\* the first frame of a second recording has just been written to its writer,
\* after the writer of the first recording took one frame and was released
C17_WroteToSecondWriter ==
  /\ pipe_pc = "send"
  /\ video_writer.opened /\ video_writer.file = 2 /\ video_writer.nframes = 1
  /\ disk[1] = FrameBytes /\ disk[2] = FrameBytes

\* C18: a RECORD_STOP, or a RECORD_STOP and a new RECORD_START, processed
\* while the pipeline is between its test of recording / recording_file and
\* the end of its size-cap step does no harm: no step of the size-cap check
\* raises, so the pipeline stays in its loop, and the recording that the
\* size-cap stop ends is one whose file is above the cap.
C18_CapStepSurvivesRecordStop ==
  [][/\ PipeCapJoin => pipe_exc' = pipe_exc /\ InTry'
     /\ (PipeCapStop /\ recording)
        => /\ disk[recording_file] >= 0
           /\ AboveCap(disk[recording_file])]_vars

\* C19: once stream_video has returned or has been left by an exception, so
\* that the process ends, no recording is left open: recording is false and
\* no opened writer remains.
C19_NoRecordingLeftOpen ==
  ~ProcessAlive => ~recording /\ ~video_writer.opened

\* the steps of one iteration of the pipeline after the test of streaming
IterationStep ==
  PipeRead \/ PipeWrite \/ PipeSend \/ PipeCapCheck \/ PipeCapJoin
  \/ PipeCapSize \/ PipeCapStop

\* the camera is started at most once, by the statement before the loop, and
\* released at most once, by the finally block after it
CameraStartedAndReleasedOnce ==
  camera' # camera
  => \/ camera = "unstarted" /\ camera' = "started" /\ pipe_pc = "start"
     \/ camera = "started" /\ camera' = "released" /\ InFinally

\* C20 as stated: in every state where streaming is false the pipeline takes
\* no step of an iteration (no frame read, no frame written, no packet sent,
\* no size-cap check) and seq, frames_sent and the frames written stay as
\* they are; and the camera is started once and released once.
C20_SuspendedWhileNotStreaming ==
  [][/\ ~streaming
        => /\ ~IterationStep
           /\ packet' = NoPacket
           /\ seq' = seq /\ frames_sent' = frames_sent
           /\ frames_recorded' <= frames_recorded
     /\ CameraStartedAndReleasedOnce]_vars

\* C20: the pipeline is suspended at the head of its loop: an iteration is
\* entered only from the head of the loop with streaming (and running) true,
\* so after a STOP at most the iteration already entered is finished; while
\* the pipeline is at the head of the loop and streaming is false, even with a
\* recording in progress, no frame is read or written, no packet is sent, no
\* size-cap warning is given, and seq, frames_sent and the writer are
\* unchanged by the pipeline; a packet is sent and a frame written only by
\* the steps of an iteration; the camera is started at most once, before the
\* loop, and released at most once, after it, whatever START and STOP arrive.
C20_SuspendedAtLoopHead ==
  [][/\ (pipe_pc' = "read" /\ pipe_pc # "read")
        => pipe_pc = "loop" /\ streaming /\ running
     /\ (pipe_pc = "loop" /\ ~streaming)
        => /\ pipe_pc' \in {"loop", "finally"}
           /\ ~IterationStep
           /\ frame' = frame
           /\ packet' = NoPacket /\ warned' = FALSE
           /\ seq' = seq /\ frames_sent' = frames_sent
           /\ frames_recorded' <= frames_recorded
           /\ video_writer'.nframes <= video_writer.nframes
     /\ packet' # NoPacket => PipeSend
     /\ video_writer'.nframes > video_writer.nframes => PipeWrite
     /\ CameraStartedAndReleasedOnce]_vars

\* the pipeline waits at the head of its loop after START, one packet and
\* one recorded frame, then STOP, with the recording still in progress and
\* the camera still started
C20_SuspendedWhileRecording ==
  /\ pipe_pc = "loop" /\ ~streaming /\ lastStream = "STOP"
  /\ recording /\ video_writer.nframes = 1
  /\ nsent = 1 /\ camera = "started" /\ running

\* what one handler may send: nothing, one reply, or the SIZE line followed by
\* the bytes of the file (all of them, or those sent before the client left)
OneReply(sent) ==
  \/ Len(sent) <= 1
  \/ /\ Len(sent) = 2
     /\ sent[1].kind = "SIZE"
     /\ sent[2].kind \in {"data", "partial"}

\* C21: every status connection is served by one handler that reads one
\* request, sends at most one reply and closes the connection, whether the
\* request is served or the handler fails (receive timeout, undecodable
\* request, directory that cannot be listed, client gone during a download);
\* the handler changes no shared field, not the running flag and not the
\* accept loop, which is still accepting after it; and the accept loop is
\* left only when the running flag is false.
C21_HandlerFailureStaysLocal ==
  [][/\ conn' # NoConn
        => /\ conn'.closed
           /\ OneReply(conn'.sent)
           /\ conn'.fault = "timeout" => conn'.sent = <<>>
           /\ status_pc' = "accept" /\ running' /\ ProcessAlive'
           /\ UNCHANGED <<stateVars, running, pipeVars, cmdVars, disk>>
     /\ (status_pc = "accept" /\ status_pc' # "accept") => ~running]_vars

\* a handler has just lost its client during the download of a recording,
\* after the SIZE line: the connection is closed and the accept loop goes on
C21_DisconnectedDuringDownload ==
  /\ conn.fault = "disconnect"
  /\ Len(conn.sent) = 2 /\ conn.sent[2].kind = "partial"
  /\ conn.closed
  /\ status_pc = "accept" /\ running

\* the datagrams that decode to text outside the vocabulary
Vocabulary ==
  {CMD_START, CMD_STOP, CMD_RECORD_START, CMD_RECORD_STOP, CMD_PING,
   CMD_SHUTDOWN}
OtherDatagrams ==
  {data \in DecodableDatagrams : Upper(Strip(data)) \notin Vocabulary}

\* C23: a datagram whose decoded, stripped, uppercased text is none of START,
\* STOP, RECORD_START, RECORD_STOP, PING, SHUTDOWN changes no field of the
\* shared state and not the running flag (nor the recordings on disk, the
\* pipeline or the listener's position) and is answered 'OK' to its sender.
C23_UnknownTextAnsweredOk ==
  [][\A data \in OtherDatagrams, addr \in Addrs :
       Receive(data, addr)
       => /\ UNCHANGED <<stateVars, running, disk, pipeVars, cmd_pc>>
          /\ reply' = [to |-> addr] @@ Msg("OK")]_vars

\* 'OK' has just been sent while the server is streaming and recording: both
\* go on
C23_OkWhileStreamingAndRecording ==
  /\ reply.text = "OK"
  /\ streaming /\ recording /\ running
  /\ video_writer.nframes = 1

\* C24: in every state streaming implies that the destination pc_ip is set;
\* a destination once set is never cleared; and streaming becomes true only
\* in the step that processes a START, which sets the destination to the
\* sender in the same step.
C24_StreamingImpliesDestination ==
  /\ [](streaming => pc_ip # "None")
  /\ [][/\ pc_ip # "None" => pc_ip' # "None"
        /\ \A data \in StartDatagrams, addr \in Addrs :
             Receive(data, addr) => streaming' /\ pc_ip' = addr
        /\ (~streaming /\ streaming')
           => \E data \in StartDatagrams, addr \in Addrs :
                Receive(data, addr) /\ pc_ip' = addr]_vars

\* SHUTDOWN has just been answered after a START from pcB and a STOP: the
\* destination is still pcB
C24_DestinationKeptAfterStop ==
  /\ reply.text = "SHUTTING_DOWN"
  /\ ~streaming /\ lastStream = "STOP"
  /\ pc_ip = "pcB"

\* C25: a successful RECORD_START never names a file that an earlier
\* recording wrote: the file named in 'Recording started' does not exist
\* when the command is processed, so no recording is overwritten, however
\* quickly RECORD_STOP and RECORD_START follow each other.
C25_NewRecordingNewFile ==
  [][reply'.text = "Recording started" => disk[reply'.file] < 0]_vars

\* C22: the frame-rate throttle.  The loop starts of two consecutive
\* iterations that send a packet are at least one frame interval apart; an
\* iteration whose elapsed time has reached the interval is followed by the
\* next one with no sleep, and one that has not sleeps at least the rest of
\* the interval; and nothing is sent to catch up: of any T + 2 packets sent
\* one after the other, the last leaves at least T intervals after the first,
\* so a window of T intervals holds at most T + 1 packets.
C22_ThrottleSpacesPackets ==
  /\ [](\A i \in 1..Len(startTimes) - 1 :
          startTimes[i + 1] - startTimes[i] >= TicksPerFrame)
  /\ [](\A i \in 1..Len(sendTimes) : \A j \in i + 1..Len(sendTimes) :
          sendTimes[j] - sendTimes[i] >= (j - i - 1) * TicksPerFrame)
  /\ [][(pipe_pc = "sleep" /\ pipe_pc' = "loop")
        => IF elapsed >= TicksPerFrame THEN now' = now
           ELSE now' - loop_start >= TicksPerFrame]_vars

\* three packets have been sent: the first by an iteration that overran the
\* interval, the second right after it, in less than an interval, and the
\* third exactly one interval after the first
C22_SentRightAfterOverrun ==
  /\ Len(sendTimes) = 3
  /\ startTimes[2] - startTimes[1] > TicksPerFrame
  /\ sendTimes[2] - sendTimes[1] < TicksPerFrame
  /\ sendTimes[3] - sendTimes[1] = TicksPerFrame

\* C26: a download whose request the Pi answers with the not-found text (no
\* newline) followed by the close of the connection terminates: the loop
\* that reads the size line ends and the HTTP client is sent the 404
\* response.
C26_NotFoundDownloadGets404 ==
  (pi_reply = "notfound") ~> (br_http = 404)

\* the datagrams of LwDatagrams that decode to a given command
LwDatagramsOf(c) == {data \in LwDatagrams : Decodable(data) /\ Command(data) = c}

\* the datagrams that are neither STOP nor PING, undecodable ones included
LwOtherDatagrams ==
  LwDatagrams \ (LwDatagramsOf(CMD_STOP) \cup LwDatagramsOf(CMD_PING))

\* what stream_video holds, which no command touches
LwStreamUnchanged == UNCHANGED <<lw_pc, lw_camera, lw_sock, lw_seq>>

\* C27: in the lightweight server a STOP datagram sets running_flag[0] to
\* false and ends the listener with no reply; a PING is answered with PONG
\* to its sender and changes nothing else; every other datagram changes
\* nothing and gets no reply; once the flag is false the loop of stream_video
\* is left at its next test of the flag, and a started camera and the video
\* socket are then released and closed.
C27_LightweightStopPingOther ==
  /\ [][\A addr \in Addrs :
          /\ \A data \in LwDatagramsOf(CMD_STOP) :
               LwReceive(data, addr) =>
                 /\ ~lw_running' /\ lw_cmd_pc' = "exited"
                 /\ lw_reply' = NoReply /\ ~lw_packet'
                 /\ LwStreamUnchanged
          /\ \A data \in LwDatagramsOf(CMD_PING) :
               LwReceive(data, addr) =>
                 /\ lw_reply' = [NoReply EXCEPT !.to = addr, !.text = "PONG"]
                 /\ lw_cmd_pc' = "test" /\ ~lw_packet'
                 /\ UNCHANGED lw_running /\ LwStreamUnchanged
          /\ \A data \in LwOtherDatagrams :
               LwReceive(data, addr) =>
                 /\ lw_reply' = NoReply /\ ~lw_packet'
                 /\ lw_cmd_pc' = "test"
                 /\ UNCHANGED lw_running /\ LwStreamUnchanged]_vars
  /\ [][(~lw_running /\ lw_pc = "test") => lw_pc' = "finally"]_vars
  /\ [][lw_reply' # NoReply => lw_reply'.text = "PONG"]_vars
  /\ (~lw_running /\ lw_camera = "started")
       ~> (lw_pc = "returned" /\ lw_camera = "released" /\ lw_sock = "closed")

\* packets were sent, STOP came, and stream_video has released the camera and
\* closed the socket
C27_StoppedAndReleased ==
  /\ ~lw_running /\ lw_cmd_pc = "exited"
  /\ lw_seq > 0
  /\ lw_pc = "returned" /\ lw_camera = "released" /\ lw_sock = "closed"

=============================================================================
